---- MODULE Spec2Model ----
(***************************************************************************)
(* Model of the PDF retrieval pipeline: data_loader.py (chunking and       *)
(* embedding), vector_db.py (QdrantStorage) and the two Inngest functions  *)
(* of main.py that use them (rag_ingest_pdf, rag_query_pdf_ai).            *)
(*                                                                         *)
(* Texts are sequences of sentences; a sentence is a name with a size in   *)
(* the splitter's units, so that the real window (1000) and overlap (200)  *)
(* are kept.  A unit of text is a pair <<sentence, offset>>.               *)
(***************************************************************************)
EXTENDS Integers, Sequences, FiniteSets, TLC

VARIABLES
    files,       \* the documents on disk: path -> sequence of page texts
    collExists,  \* Qdrant: whether collection 'docs' exists
    collDim,     \* Qdrant: the vector size the collection was created with
    points,      \* Qdrant: the records of the collection, id -> [vector, payload]
    pc,          \* per ingest invocation: position in rag_ingest_pdf
    ev,          \* per ingest invocation: ctx.event.data
    loaded,      \* per ingest invocation: output of step 'load-and-chunk'
    batch,       \* per ingest invocation: the points handed to client.upsert
    widx,        \* per ingest invocation: how many points of batch are written
    ret,         \* per ingest invocation: what the function returned
    runs,        \* per ingest invocation: completed runs of the current event
    aborted,     \* per ingest invocation: whether the current run was ever aborted
    base,        \* per ingest invocation: the records when the event was sent
    dirty,       \* per ingest invocation: another invocation wrote since then
    found,       \* what the last query invocation returned of its search
    call         \* the last direct call on a QdrantStorage object and its outcome

vars == <<files, collExists, collDim, points, pc, ev, loaded, batch, widx, ret,
          runs, aborted, base, dirty, found, call>>

----------------------------------------------------------------------------
(* Bounds of the model *)

MaxPages == 2
MaxSents == 3
MaxReRuns == 1
MaxTopK == 1
MaxArgs == 1

(* Program constants *)

ChunkSize == 1000
ChunkOverlap == 200
EMBED_DIM == 3072
DefaultDim == 3072
DefaultTopK == 5

----------------------------------------------------------------------------
(* Texts *)

Sentences == {"A", "B", "C"}

SentSize(s) == CASE s = "A" -> 200 [] s = "B" -> 500 [] OTHER -> 800

RECURSIVE TokenSize(_)
TokenSize(text) ==
    IF text = <<>> THEN 0 ELSE SentSize(Head(text)) + TokenSize(Tail(text))

RECURSIVE TokenAt(_, _)
TokenAt(text, k) ==
    IF k <= SentSize(Head(text)) THEN <<Head(text), k>>
    ELSE TokenAt(Tail(text), k - SentSize(Head(text)))

RECURSIVE Join(_)
Join(parts) == IF parts = <<>> THEN <<>> ELSE Head(parts) \o Join(Tail(parts))

RECURSIVE SizeOfParts(_)
SizeOfParts(parts) ==
    IF parts = <<>> THEN 0 ELSE TokenSize(Head(parts)) + SizeOfParts(Tail(parts))

SeqsUpTo(S, n) == UNION {[1..k -> S] : k \in 0..n}

Pages == SeqsUpTo(Sentences, MaxSents)
Docs == SeqsUpTo(Pages, MaxPages)

----------------------------------------------------------------------------
(* data_loader.py: splitter = SentenceSplitter(chunk_size, chunk_overlap) *)

\* SentenceSplitter._split: a text within the window is one split, a longer
\* one is split into its sentences (every sentence here fits the window).
SplitIntoSplits(text) ==
    IF TokenSize(text) <= ChunkSize THEN <<text>>
    ELSE [i \in 1..Len(text) |-> <<text[i]>>]

\* close_chunk: the next chunk starts with the trailing splits of the last
\* one, as many whole splits as fit in chunk_overlap.
RECURSIVE OverlapOf(_, _, _)
OverlapOf(last, idx, cur) ==
    IF idx >= 1 /\ SizeOfParts(cur) + TokenSize(last[idx]) <= ChunkOverlap
    THEN OverlapOf(last, idx - 1, <<last[idx]>> \o cur)
    ELSE cur

\* a new chunk drops carried-over splits until the next split fits
RECURSIVE DropFront(_, _)
DropFront(cur, sz) ==
    IF cur # <<>> /\ SizeOfParts(cur) + sz > ChunkSize
    THEN DropFront(Tail(cur), sz) ELSE cur

\* SentenceSplitter._merge
RECURSIVE Merge(_, _, _, _, _)
Merge(splits, idx, cur, newChunk, chunks) ==
    IF idx > Len(splits)
    THEN IF newChunk THEN chunks ELSE Append(chunks, Join(cur))
    ELSE LET sz == TokenSize(splits[idx]) IN
         IF SizeOfParts(cur) + sz > ChunkSize /\ ~newChunk
         THEN Merge(splits, idx, OverlapOf(cur, Len(cur), <<>>), TRUE,
                    Append(chunks, Join(cur)))
         ELSE LET kept == IF newChunk /\ SizeOfParts(cur) + sz > ChunkSize
                          THEN DropFront(cur, sz) ELSE cur
              IN Merge(splits, idx + 1, Append(kept, splits[idx]), FALSE, chunks)

\* _postprocess_chunks: empty chunks are dropped
DropEmpty(chunks) == SelectSeq(chunks, LAMBDA c : c # <<>>)

\* splitter.split_text(t)
SplitText(text) ==
    IF text = <<>> THEN << <<>> >>
    ELSE DropEmpty(Merge(SplitIntoSplits(text), 1, <<>>, TRUE, <<>>))

RECURSIVE ExtendAll(_)
ExtendAll(texts) ==
    IF texts = <<>> THEN <<>> ELSE SplitText(Head(texts)) \o ExtendAll(Tail(texts))

\* load_and_chunk_pdf(path), for the pages PDFReader().load_data gives
LoadAndChunk(doc) == ExtendAll(SelectSeq(doc, LAMBDA t : t # <<>>))

----------------------------------------------------------------------------
(* data_loader.py: embed_texts; main.py: ids and payloads of _upsert *)

\* one vector per input text, in order; the vector stands for "the
\* embedding of this text" and has the model's dimension
EmbedTexts(texts) == [k \in 1..Len(texts) |-> [dim |-> EMBED_DIM, of |-> texts[k]]]

\* a name built from the ordinal alone
PointNameNoSource(source_id, i) == ": " \o ToString(i)

\* f"{source_id}: {i}", with i counted from 0
PointName(source_id, i) == source_id \o ": " \o ToString(i)

\* str(uuid.uuid5(uuid.NAMESPACE_URL, name)): a hash of the name, taken to
\* be free of collisions
PointId(source_id, i) == <<"NAMESPACE_URL", PointName(source_id, i)>>

PointIds(source_id, chunks) == [k \in 1..Len(chunks) |-> PointId(source_id, k - 1)]

Payloads(source_id, chunks) ==
    [k \in 1..Len(chunks) |-> [source |-> source_id, text |-> chunks[k]]]

----------------------------------------------------------------------------
(* vector_db.py: QdrantStorage, and the Qdrant collection behind it *)

None == [None |-> TRUE]
IndexError == "IndexError"
NoError == ""

\* __init__: create the collection only if it does not exist; the result is
\* the pair <<exists, dim>> of the collection afterwards
EnsureCollection(exists, had, dim) == IF exists THEN <<TRUE, had>> ELSE <<TRUE, dim>>

\* PointStruct(id=.., vector=.., payload=..): a payload of None is no payload
PointStruct(id, vector, payload) ==
    IF payload = None THEN [id |-> id, vector |-> vector]
    ELSE [id |-> id, vector |-> vector, payload |-> payload]

\* upsert, line 17: indexing vectors or payloads past their end raises
\* IndexError; their elements past len(ids) are never read
PointStructs(ids, vectors, payloads) ==
    IF Len(vectors) < Len(ids) \/ Len(payloads) < Len(ids)
    THEN [raised |-> IndexError, points |-> <<>>]
    ELSE [raised |-> NoError,
          points |-> [i \in 1..Len(ids) |->
                        PointStruct(ids[i], vectors[i], payloads[i])]]

StoredRecord(pt) == [f \in DOMAIN pt \ {"id"} |-> pt[f]]

\* a write that replaces the whole collection by the point
UpsertPointReplacingAll(store, pt) == [x \in {pt.id} |-> StoredRecord(pt)]

\* a write that inserts under a new id each time instead of overwriting
UpsertPointFreshId(store, pt) ==
    LET fresh == <<pt.id[1], pt.id[2] \o "#" \o ToString(Cardinality(DOMAIN store))>>
    IN [x \in DOMAIN store \cup {fresh} |->
           IF x = fresh THEN StoredRecord(pt) ELSE store[x]]

\* the collection after client.upsert has written one point: the record
\* with that id is inserted or overwritten, every other record is kept
UpsertPoint(store, pt) ==
    [x \in DOMAIN store \cup {pt.id} |->
        IF x = pt.id THEN StoredRecord(pt) ELSE store[x]]

RECURSIVE UpsertAll(_, _)
UpsertAll(store, pts) ==
    IF pts = <<>> THEN store ELSE UpsertAll(UpsertPoint(store, Head(pts)), Tail(pts))

\* the server refuses a batch holding a vector of another size than the
\* collection's
BatchAccepted(pts, dim) == \A i \in 1..Len(pts) : pts[i].vector.dim = dim

----------------------------------------------------------------------------
(* main.py: rag_ingest_pdf, one invocation per element of Invs *)

Invs == {"i1", "i2"}
Paths == {"a.pdf", "b.pdf", "scan.pdf"}
GivenSourceIds == {"S"}

DiskFiles ==
    [p \in Paths |->
        CASE p = "a.pdf" -> << <<"C", "A", "C">>, <<"B">> >>
          [] p = "b.pdf" -> << <<"B", "A">> >>
          [] OTHER -> << <<>>, <<>> >>]

Events ==
    {[pdf_path |-> p] : p \in Paths}
      \cup {[pdf_path |-> p, source_id |-> s] : p \in Paths, s \in GivenSourceIds}

NoEvent == <<>>
NoOutput == <<>>

\* ctx.event.data.get('source_id', pdf_path)
SourceIdOf(e) == IF "source_id" \in DOMAIN e THEN e.source_id ELSE e.pdf_path

IngestUnchanged == UNCHANGED <<files, found, call>>

\* the event rag/ingest_pdf is sent
Trigger(p, e) ==
    /\ pc[p] = "idle"
    /\ pc' = [pc EXCEPT ![p] = "pending"]
    /\ ev' = [ev EXCEPT ![p] = e]
    /\ base' = [base EXCEPT ![p] = points]
    /\ UNCHANGED <<collExists, collDim, points, loaded, batch, widx, ret, runs,
                   aborted, dirty>>
    /\ IngestUnchanged

\* step 'load-and-chunk': _load
Load(p) ==
    /\ pc[p] = "pending"
    /\ loaded' = [loaded EXCEPT ![p] =
                    [chunks |-> LoadAndChunk(files[ev[p].pdf_path]),
                     source_id |-> SourceIdOf(ev[p])]]
    /\ pc' = [pc EXCEPT ![p] = "chunked"]
    /\ UNCHANGED <<collExists, collDim, points, ev, batch, widx, ret, runs,
                   aborted, base, dirty>>
    /\ IngestUnchanged

\* step 'embed-and-upsert', line 43: the request to the embedding service
EmbedCall(p) ==
    /\ pc[p] = "chunked"
    /\ pc' = [pc EXCEPT ![p] = "embedding"]
    /\ UNCHANGED <<collExists, collDim, points, ev, loaded, batch, widx, ret,
                   runs, aborted, base, dirty>>
    /\ IngestUnchanged

Fail(p, error) ==
    /\ pc' = [pc EXCEPT ![p] = "failed"]
    /\ ret' = [ret EXCEPT ![p] = [error |-> error]]
    /\ UNCHANGED <<batch, widx>>

\* step 'embed-and-upsert', lines 43-46 up to the request client.upsert:
\* the vectors arrive, ids and payloads are built, QdrantStorage() is
\* constructed and upsert builds its points.  For an empty input the
\* embedding service and the store each either refuse the request or
\* accept it.
EmbedReturn(p) ==
    /\ pc[p] = "embedding"
    /\ LET chunks == loaded[p].chunks
           source_id == loaded[p].source_id
           vecs == EmbedTexts(chunks)
           ids == PointIds(source_id, chunks)
           payloads == Payloads(source_id, chunks)
           coll == EnsureCollection(collExists, collDim, DefaultDim)
           built == PointStructs(ids, vecs, payloads)
           pts == built.points
       IN \/ /\ chunks = <<>>
             /\ Fail(p, "BadRequestError")
             /\ UNCHANGED <<collExists, collDim>>
          \/ /\ collExists' = coll[1]
             /\ collDim' = coll[2]
             /\ IF built.raised # NoError THEN Fail(p, built.raised)
                ELSE IF ~BatchAccepted(pts, coll[2])
                THEN Fail(p, "UnexpectedResponse")
                ELSE \/ /\ pts = <<>>
                        /\ Fail(p, "UnexpectedResponse")
                     \/ /\ pc' = [pc EXCEPT ![p] = "upserting"]
                        /\ batch' = [batch EXCEPT ![p] = pts]
                        /\ widx' = [widx EXCEPT ![p] = 0]
                        /\ UNCHANGED ret
    /\ UNCHANGED <<points, ev, loaded, runs, aborted, base, dirty>>
    /\ IngestUnchanged

\* the collection writes the next point of the batch
PointWrite(p) ==
    /\ pc[p] = "upserting"
    /\ widx[p] < Len(batch[p])
    /\ points' = UpsertPoint(points, batch[p][widx[p] + 1])
    /\ widx' = [widx EXCEPT ![p] = widx[p] + 1]
    /\ dirty' = [q \in Invs |-> IF q # p /\ pc[q] # "idle" THEN TRUE ELSE dirty[q]]
    /\ UNCHANGED <<collExists, collDim, pc, ev, loaded, batch, ret, runs,
                   aborted, base>>
    /\ IngestUnchanged

\* client.upsert returns; line 47 and line 52
UpsertReturn(p) ==
    /\ pc[p] = "upserting"
    /\ widx[p] = Len(batch[p])
    /\ pc' = [pc EXCEPT ![p] = "stored"]
    /\ ret' = [ret EXCEPT ![p] = [ingested |-> Len(loaded[p].chunks)]]
    /\ runs' = [runs EXCEPT ![p] = runs[p] + 1]
    /\ UNCHANGED <<collExists, collDim, points, ev, loaded, batch, widx,
                   aborted, base, dirty>>
    /\ IngestUnchanged

\* the same event is sent again after a completed run
ReRun(p) ==
    /\ pc[p] = "stored"
    /\ runs[p] <= MaxReRuns
    /\ pc' = [pc EXCEPT ![p] = "pending"]
    /\ loaded' = [loaded EXCEPT ![p] = NoOutput]
    /\ batch' = [batch EXCEPT ![p] = <<>>]
    /\ widx' = [widx EXCEPT ![p] = 0]
    /\ ret' = [ret EXCEPT ![p] = NoOutput]
    /\ UNCHANGED <<collExists, collDim, points, ev, runs, aborted, base, dirty>>
    /\ IngestUnchanged

\* the orchestrator aborts the run where it stands; nothing is rolled back
Abort(p) ==
    /\ pc[p] \in {"pending", "chunked", "embedding", "upserting"}
    /\ pc' = [pc EXCEPT ![p] = "aborted"]
    /\ aborted' = [aborted EXCEPT ![p] = TRUE]
    /\ batch' = [batch EXCEPT ![p] = <<>>]
    /\ widx' = [widx EXCEPT ![p] = 0]
    /\ UNCHANGED <<collExists, collDim, points, ev, loaded, ret, runs, base, dirty>>
    /\ IngestUnchanged

\* the orchestrator runs the function again: a step whose output it holds
\* is not run again, or the run starts from the first step
Retry(p) ==
    /\ pc[p] = "aborted"
    /\ \/ /\ loaded[p] # NoOutput
          /\ pc' = [pc EXCEPT ![p] = "chunked"]
          /\ UNCHANGED loaded
       \/ /\ pc' = [pc EXCEPT ![p] = "pending"]
          /\ loaded' = [loaded EXCEPT ![p] = NoOutput]
    /\ UNCHANGED <<collExists, collDim, points, ev, batch, widx, ret, runs,
                   aborted, base, dirty>>
    /\ IngestUnchanged

----------------------------------------------------------------------------
(* vector_db.py: QdrantStorage.search *)

Injective(f) == \A i, j \in DOMAIN f : i # j => f[i] # f[j]

Min(a, b) == IF a <= b THEN a ELSE b

\* a hit of client.search(.., with_payload=True): the record's id, and its
\* payload when it has one
Hit(store, id) ==
    IF "payload" \in DOMAIN store[id]
    THEN [id |-> id, payload |-> store[id].payload]
    ELSE [id |-> id]

\* client.search(.., limit=limit): at most limit distinct records, ranked;
\* the ranking depends on the vectors and is left open
ClientSearch(store, limit) ==
    {[i \in DOMAIN s |-> Hit(store, s[i])] :
        s \in {t \in SeqsUpTo(DOMAIN store, Min(limit, Cardinality(DOMAIN store))) :
                 Injective(t)}}

\* line 26: limit=top_k
SearchLimit(top_k) == top_k

\* line 32: getattr(r, 'payload', None) or {}
PayloadOf(r) == IF "payload" \in DOMAIN r THEN r.payload ELSE <<>>

\* payload.get(key, default)
Get(payload, key, default) == IF key \in DOMAIN payload THEN payload[key] ELSE default

\* a test that keeps every text
KeepAll(text) == TRUE

\* line 35: if text
Truthy(text) == text # <<>>

TextOf(r) == Get(PayloadOf(r), "text", <<>>)
SourceOf(r) == Get(PayloadOf(r), "source", "")

\* lines 28-36: contexts
RECURSIVE ContextsOf(_)
ContextsOf(hits) ==
    IF hits = <<>> THEN <<>>
    ELSE (IF Truthy(TextOf(Head(hits))) THEN <<TextOf(Head(hits))>> ELSE <<>>)
             \o ContextsOf(Tail(hits))

\* the sources of all hits, kept or dropped
SourcesOfAllHits(hits) == {SourceOf(hits[i]) : i \in DOMAIN hits}

\* lines 29-37: sources
SourcesOf(hits) == {SourceOf(hits[i]) : i \in {j \in DOMAIN hits : Truthy(TextOf(hits[j]))}}

\* line 40: list(sources), in an order the set decides
ListsOf(S) == {l \in [1..Cardinality(S) -> S] : Injective(l)}

\* what search(query_vector, top_k) can return, with the hits it came from
SearchOutcomes(store, top_k) ==
    {[top_k |-> top_k, hits |-> hits, contexts |-> ContextsOf(hits), sources |-> l] :
        <<hits, l>> \in UNION {{<<h, m>> : m \in ListsOf(SourcesOf(h))} :
                                 h \in ClientSearch(store, SearchLimit(top_k))}}

----------------------------------------------------------------------------
(* main.py: rag_query_pdf_ai, step 'embed-and-search' *)

TopKs == 1..MaxTopK

\* line 144: what the function returns of the search result
QueryReturn(out) == [sources |-> out.sources, num_contexts |-> Len(out.contexts)]

\* _search: the question is embedded, QdrantStorage() is constructed and
\* searched; the step's output is RAGSearchResult(contexts, sources)
Query(top_k) ==
    /\ LET coll == EnsureCollection(collExists, collDim, DefaultDim) IN
         /\ collExists' = coll[1]
         /\ collDim' = coll[2]
         /\ IF coll[2] = EMBED_DIM
            THEN found' \in {QueryReturn(out) : out \in SearchOutcomes(points, top_k)}
            ELSE found' = [raised |-> "UnexpectedResponse"]
    /\ UNCHANGED <<files, points, pc, ev, loaded, batch, widx, ret, runs, aborted,
                   base, dirty, call>>

----------------------------------------------------------------------------
(* vector_db.py: calls on a QdrantStorage object made by any caller *)

Dims == {3072, 1536}
DirectIds == {"x", "y"}
DirectVector == [dim |-> EMBED_DIM, of |-> <<"A">>]
PayloadArgs ==
    {None,
     [source |-> "s"],
     [source |-> "s", text |-> <<>>],
     [source |-> "s", text |-> <<"A">>],
     [source |-> "t", text |-> <<"B">>]}
DirectTopKs == (0..MaxTopK) \cup {DefaultTopK}

StorageUnchanged ==
    UNCHANGED <<files, pc, ev, loaded, batch, widx, ret, runs, aborted, base,
                dirty, found>>

\* QdrantStorage(dim=dim)
OpenStore(dim) ==
    /\ LET coll == EnsureCollection(collExists, collDim, dim) IN
         /\ collExists' = coll[1]
         /\ collDim' = coll[2]
    /\ call' = [op |-> "open", dim |-> dim, existed |-> collExists,
                had |-> collDim, raised |-> NoError]
    /\ UNCHANGED points
    /\ StorageUnchanged

\* upsert(ids, vectors, payloads) on a constructed object; the store
\* either refuses or accepts a request without points
DirectUpsert(ids, vectors, payloads) ==
    /\ collExists
    /\ \E takes_empty \in BOOLEAN :
       LET built == PointStructs(ids, vectors, payloads)
           sent == built.raised = NoError
           accepted == /\ sent
                       /\ BatchAccepted(built.points, collDim)
                       /\ (built.points = <<>> => takes_empty)
       IN /\ points' = IF accepted THEN UpsertAll(points, built.points) ELSE points
          /\ call' = [op |-> "upsert",
                      lens |-> <<Len(ids), Len(vectors), Len(payloads)>>,
                      sent |-> sent,
                      wrote |-> IF accepted THEN Len(built.points) ELSE 0,
                      raised |-> IF ~sent THEN built.raised
                                 ELSE IF ~accepted THEN "UnexpectedResponse"
                                 ELSE NoError]
    /\ UNCHANGED <<collExists, collDim>>
    /\ StorageUnchanged

\* search(query_vector, top_k) on a constructed object
DirectSearch(top_k) ==
    /\ collExists
    /\ IF collDim = EMBED_DIM
       THEN \E out \in SearchOutcomes(points, top_k) :
               call' = [op |-> "search", raised |-> NoError, result |-> out]
       ELSE call' = [op |-> "search", raised |-> "UnexpectedResponse"]
    /\ UNCHANGED <<collExists, collDim, points>>
    /\ StorageUnchanged

----------------------------------------------------------------------------
(* Specifications *)

Init ==
    /\ files = DiskFiles
    /\ collExists = FALSE
    /\ collDim = 0
    /\ points = <<>>
    /\ pc = [p \in Invs |-> "idle"]
    /\ ev = [p \in Invs |-> NoEvent]
    /\ loaded = [p \in Invs |-> NoOutput]
    /\ batch = [p \in Invs |-> <<>>]
    /\ widx = [p \in Invs |-> 0]
    /\ ret = [p \in Invs |-> NoOutput]
    /\ runs = [p \in Invs |-> 0]
    /\ aborted = [p \in Invs |-> FALSE]
    /\ base = [p \in Invs |-> <<>>]
    /\ dirty = [p \in Invs |-> FALSE]
    /\ found = NoOutput
    /\ call = [op |-> "none"]

\* the pipeline: ingest invocations and queries on one collection
Next ==
    \/ \E p \in Invs, e \in Events : Trigger(p, e)
    \/ \E p \in Invs : Load(p)
    \/ \E p \in Invs : EmbedCall(p)
    \/ \E p \in Invs : EmbedReturn(p)
    \/ \E p \in Invs : PointWrite(p)
    \/ \E p \in Invs : UpsertReturn(p)
    \/ \E p \in Invs : ReRun(p)
    \/ \E k \in TopKs : Query(k)

Spec == Init /\ [][Next]_vars

\* ingest invocations that the orchestrator may abort and run again
NextRetry ==
    \/ \E p \in Invs, e \in Events : Trigger(p, e)
    \/ \E p \in Invs : Load(p)
    \/ \E p \in Invs : EmbedCall(p)
    \/ \E p \in Invs : EmbedReturn(p)
    \/ \E p \in Invs : PointWrite(p)
    \/ \E p \in Invs : UpsertReturn(p)
    \/ \E p \in Invs : ReRun(p)
    \/ \E p \in Invs : Abort(p)
    \/ \E p \in Invs : Retry(p)

SpecRetry == Init /\ [][NextRetry]_vars

\* the class QdrantStorage under any sequence of calls
NextStorage ==
    \/ \E d \in Dims : OpenStore(d)
    \/ \E ids \in SeqsUpTo(DirectIds, MaxArgs),
          n \in 0..MaxArgs,
          payloads \in SeqsUpTo(PayloadArgs, MaxArgs) :
            DirectUpsert(ids, [i \in 1..n |-> DirectVector], payloads)
    \/ \E k \in DirectTopKs : DirectSearch(k)

SpecStorage == Init /\ [][NextStorage]_vars

\* load_and_chunk_pdf on any document within the bounds
InitChunk ==
    /\ \E d \in Docs : files = [p \in Paths |-> d]
    /\ collExists = FALSE
    /\ collDim = 0
    /\ points = <<>>
    /\ pc = [p \in Invs |-> "pending"]
    /\ ev = [p \in Invs |-> [pdf_path |-> "a.pdf"]]
    /\ loaded = [p \in Invs |-> NoOutput]
    /\ batch = [p \in Invs |-> <<>>]
    /\ widx = [p \in Invs |-> 0]
    /\ ret = [p \in Invs |-> NoOutput]
    /\ runs = [p \in Invs |-> 0]
    /\ aborted = [p \in Invs |-> FALSE]
    /\ base = [p \in Invs |-> <<>>]
    /\ dirty = [p \in Invs |-> FALSE]
    /\ found = NoOutput
    /\ call = [op |-> "none"]

NextChunk == \E p \in Invs : Load(p)

SpecChunk == InitChunk /\ [][NextChunk]_vars

----------------------------------------------------------------------------
(* Properties *)

IdsOf(p) == {batch[p][k].id : k \in 1..Len(batch[p])}

RecordSource(store, id) == SourceOf(Hit(store, id))

CountOf(store, source_id) ==
    Cardinality({id \in DOMAIN store : RecordSource(store, id) = source_id})

PayloadView(store) == [id \in DOMAIN store |-> PayloadOf(Hit(store, id))]

\* C1: a run of the ingest flow that repeats a completed run of the same
\* event (same source_id, same document) writes only ids that are already
\* in the collection: no write of the second run changes the set of record
\* ids or the number of records of that source.
C1_ReingestIsIdempotent ==
    [][\A p \in Invs :
         (pc[p] = "upserting" /\ runs[p] >= 1 /\ widx'[p] = widx[p] + 1) =>
            /\ batch[p][widx[p] + 1].id \in DOMAIN points
            /\ DOMAIN points' = DOMAIN points
            /\ CountOf(points', loaded[p].source_id)
                 = CountOf(points, loaded[p].source_id)]_vars

C1_Witness ==
    \E p \in Invs :
        /\ runs[p] >= 1
        /\ pc[p] = "upserting"
        /\ Len(batch[p]) >= 2
        /\ widx[p] = Len(batch[p])

\* the collection after one uninterrupted run of the event e on the store b
UninterruptedRun(b, e) ==
    LET chunks == LoadAndChunk(files[e.pdf_path])
        source_id == SourceIdOf(e)
    IN UpsertAll(b, PointStructs(PointIds(source_id, chunks), EmbedTexts(chunks),
                                 Payloads(source_id, chunks)).points)

\* C2: an invocation that was aborted (at any step, after any number of
\* its points were written) and run again to completion leaves the ids and
\* payloads that one uninterrupted run on the same starting store leaves,
\* when no other invocation wrote in between.
C2_AbortRetryConverges ==
    \A p \in Invs :
        (pc[p] = "stored" /\ aborted[p] /\ ~dirty[p]) =>
            PayloadView(points) = PayloadView(UninterruptedRun(base[p], ev[p]))

C2_Witness ==
    \E p \in Invs :
        /\ pc[p] = "stored"
        /\ aborted[p]
        /\ ~dirty[p]
        /\ Len(batch[p]) >= 2
        /\ \E id \in IdsOf(p) \cap DOMAIN base[p] :
              base[p][id].payload # points[id].payload

\* C3: two ingest invocations with different source ids derive disjoint
\* ids, and once both have completed the collection holds every record of
\* both, each with the source and text its own invocation wrote.
C3_DifferentSourcesDoNotInterfere ==
    \A p, q \in Invs :
        (/\ p # q
         /\ loaded[p] # NoOutput
         /\ loaded[q] # NoOutput
         /\ loaded[p].source_id # loaded[q].source_id) =>
            /\ IdsOf(p) \cap IdsOf(q) = {}
            /\ (pc[p] = "stored" /\ pc[q] = "stored") =>
                  \A r \in {p, q} : \A k \in 1..Len(loaded[r].chunks) :
                      /\ batch[r][k].id \in DOMAIN points
                      /\ points[batch[r][k].id].payload
                           = [source |-> loaded[r].source_id,
                              text |-> loaded[r].chunks[k]]

C3_Witness ==
    \E p, q \in Invs :
        /\ p # q
        /\ pc[p] = "stored" /\ pc[q] = "stored"
        /\ loaded[p].source_id # loaded[q].source_id
        /\ Len(batch[p]) >= 2 /\ Len(batch[q]) >= 1
        /\ dirty[p] /\ dirty[q]

\* C4: upsert called with ids, vectors and payloads that are not all of
\* the same length raises before the store client is called, and writes no
\* record.
C4_MismatchedLengthsFailFast ==
    (call.op = "upsert"
       /\ ~(call.lens[1] = call.lens[2] /\ call.lens[2] = call.lens[3])) =>
        /\ call.raised # NoError
        /\ ~call.sent
        /\ call.wrote = 0

\* C5: constructing the store on a collection that exists with another
\* dimension raises DimensionMismatchError and leaves the collection as it
\* was; an absent collection is created with the requested dimension, and
\* one that exists with the same dimension is left alone.
C5_DimensionMismatchIsRaised ==
    call.op = "open" =>
        /\ (call.existed /\ call.had # call.dim) =>
              call.raised = "DimensionMismatchError"
        /\ call.existed => (collExists /\ collDim = call.had)
        /\ ~call.existed => (collExists /\ collDim = call.dim)

\* C6: when the document yields no chunks the flow ends in EmptyInputError:
\* the embedding service is not called, nothing is upserted and no
\* ingested count is returned.
C6_EmptyDocumentIsAnError ==
    \A p \in Invs :
        (loaded[p] # NoOutput /\ loaded[p].chunks = <<>>) =>
            /\ pc[p] \notin {"embedding", "upserting", "stored"}
            /\ pc[p] = "failed" => ret[p] = [error |-> "EmptyInputError"]

\* C7: the contexts of a search hold at most top_k texts and no empty text,
\* whatever the payloads of the stored records are.
C7_AtMostTopKNonEmptyContexts ==
    (call.op = "search" /\ call.raised = NoError) =>
        /\ Len(call.result.contexts) <= call.result.top_k
        /\ \A i \in 1..Len(call.result.contexts) : call.result.contexts[i] # <<>>

C7_Witness ==
    /\ call.op = "search" /\ call.raised = NoError
    /\ call.result.top_k = 1
    /\ Cardinality(DOMAIN points) > 1
    /\ Len(call.result.hits) = 1
    /\ "payload" \notin DOMAIN call.result.hits[1]
    /\ call.result.contexts = <<>>

HasText(r) ==
    /\ "payload" \in DOMAIN r
    /\ "text" \in DOMAIN r.payload
    /\ r.payload.text # <<>>

KeptHits(hits) == SelectSeq(hits, HasText)

\* C8: contexts is the texts of the hits that have a non-empty text, in the
\* order of the hits; sources has no duplicates and is the set of the
\* sources of exactly those hits.
C8_ResultReconstruction ==
    (call.op = "search" /\ call.raised = NoError) =>
        LET kept == KeptHits(call.result.hits)
            sources == call.result.sources
        IN /\ call.result.contexts = [i \in 1..Len(kept) |-> kept[i].payload.text]
           /\ Injective(sources)
           /\ {sources[i] : i \in 1..Len(sources)}
                = {IF "source" \in DOMAIN kept[i].payload
                   THEN kept[i].payload.source ELSE "" : i \in 1..Len(kept)}

C8_Witness ==
    /\ call.op = "search" /\ call.raised = NoError
    /\ Len(call.result.hits) = 2
    /\ HasText(call.result.hits[2])
    /\ ~HasText(call.result.hits[1])
    /\ SourceOf(call.result.hits[1]) = "s"
    /\ call.result.sources = <<"t">>

\* the trailing ChunkOverlap units of c are the leading ones of d
Overlaps(c, d) ==
    /\ TokenSize(c) >= ChunkOverlap
    /\ TokenSize(d) >= ChunkOverlap
    /\ \A k \in 1..ChunkOverlap :
          TokenAt(c, TokenSize(c) - ChunkOverlap + k) = TokenAt(d, k)

\* C9: in the chunk sequence of a document longer than one window, every
\* two adjacent chunks overlap by ChunkOverlap units, also when they come
\* from different pages.
C9_AdjacentChunksOverlap ==
    \A p \in Invs :
        (pc[p] = "chunked" /\ TokenSize(Join(files[ev[p].pdf_path])) > ChunkSize) =>
            \A i \in 1..(Len(loaded[p].chunks) - 1) :
                Overlaps(loaded[p].chunks[i], loaded[p].chunks[i + 1])

\* p ingested a source completely before the event of q, which ingests the
\* same source from a document with fewer chunks
ReingestedShorter(p, q) ==
    /\ p # q
    /\ pc[p] = "stored" /\ pc[q] = "stored"
    /\ loaded[p].source_id = loaded[q].source_id
    /\ Len(loaded[q].chunks) < Len(loaded[p].chunks)
    /\ IdsOf(p) \subseteq DOMAIN base[q]

StaleRecordsRemain ==
    \A p, q \in Invs :
        ReingestedShorter(p, q) =>
            /\ CountOf(points, loaded[p].source_id) = Len(loaded[p].chunks)
            /\ \A k \in (Len(loaded[q].chunks) + 1)..Len(loaded[p].chunks) :
                  LET id == batch[p][k].id IN
                    /\ id \in DOMAIN points
                    /\ points[id].payload = [source |-> loaded[p].source_id,
                                             text |-> loaded[p].chunks[k]]
                    /\ \E out \in SearchOutcomes(points, 1) :
                          /\ Len(out.hits) = 1
                          /\ out.hits[1].id = id
                          /\ out.contexts = <<loaded[p].chunks[k]>>

\* C10: no step of an ingest or a query removes a record id; after a source
\* with n chunks is ingested again from a document with m < n chunks, the
\* records m..n-1 of the first ingest are still there with their old text,
\* the source still counts n records, and they can still be search hits.
C10_StoreOnlyGrows ==
    /\ [][DOMAIN points \subseteq DOMAIN points']_vars
    /\ []StaleRecordsRemain

C10_Witness ==
    \E p, q \in Invs :
        /\ ReingestedShorter(p, q)
        /\ Len(loaded[q].chunks) >= 1
        /\ found # NoOutput

====
